---------------------------- MODULE Spec2Model ----------------------------
(***************************************************************************)
(* korektor: the clone-stamp image view (src/korektor.py).                 *)
(*                                                                         *)
(* State machine of ImageView (the controller), Image (base image and      *)
(* clone buffer), SelectedArea and Point.  Python numbers are modelled as   *)
(* rationals <<n, d>> (d > 0, lowest terms) with float rounding after each *)
(* operation; round() is Python's round-half-to-even.  An optional value   *)
(* (None in the source) is the empty tuple, a present value v is <<v>>.    *)
(*                                                                         *)
(* The toolkit (wx) is the environment: it delivers paint, mouse and size  *)
(* events one at a time; every handler runs to completion or stops at the  *)
(* first exception it raises, keeping the assignments made before it.      *)
(***************************************************************************)
EXTENDS Integers, Sequences, FiniteSets, TLC

(***************************************************************************)
(* Float arithmetic.  A Python float is a binary floating-point number; it *)
(* is modelled as the rational <<n, d>> it denotes, and every arithmetic   *)
(* operation gives the exact result rounded to the nearest number with a   *)
(* mantissa of MantissaBits bits, ties to the even mantissa (the IEEE 754  *)
(* rule, at a shorter mantissa than the 53 bits of a double).              *)
(***************************************************************************)
MantissaBits == 8

Abs(i) == IF i < 0 THEN -i ELSE i

RECURSIVE GCD(_, _)
GCD(a, b) == IF b = 0 THEN a ELSE GCD(b, a % b)

Norm(n, d) ==
    LET s == IF d < 0 THEN -1 ELSE 1
        g == GCD(Abs(n), Abs(d))
    IN  <<(s * n) \div g, (s * d) \div g>>

\* n / d (both positive) brought into [2^(MantissaBits-1), 2^MantissaBits)
\* by powers of two: <<n, d, e>> with value = (n / d) * 2^e.
RECURSIVE Binade(_, _, _)
Binade(n, d, e) ==
    IF n \div 2^MantissaBits >= d THEN Binade(n, 2 * d, e + 1)
    ELSE IF n \div 2^(MantissaBits - 1) < d
    THEN IF d % 2 = 0 THEN Binade(n, d \div 2, e - 1) ELSE Binade(2 * n, d, e - 1)
    ELSE <<n, d, e>>

\* Nearest integer to n / d (d > 0), ties to the even one.
Nearest(n, d) ==
    LET f == n \div d
        r == n % d
    IN  IF 2 * r < d THEN f
        ELSE IF 2 * r > d THEN f + 1
        ELSE IF f % 2 = 0 THEN f ELSE f + 1

\* m * 2^e as a rational in lowest terms.
TimesPow2(m, e) == IF e >= 0 THEN <<m * 2^e, 1>> ELSE Norm(m, 2^(-e))

\* The float of sign s whose magnitude is nearest to the binade triple b.
FlRound(s, b) == TimesPow2(s * Nearest(b[1], b[2]), b[3])

\* The float nearest to the rational n / d (d > 0, lowest terms), ties to
\* even.
Fl(n, d) ==
    IF Abs(n) < 2^MantissaBits /\ d \in {1, 2, 4, 8}
    THEN <<n, d>>    \* a short mantissa over a power of two: a float already
    ELSE FlRound(IF n < 0 THEN -1 ELSE 1, Binade(Abs(n), d, 0))

FlQ(q) == Fl(q[1], q[2])

R(i) == <<i, 1>>
RAdd(a, b) == FlQ(Norm(a[1] * b[2] + b[1] * a[2], a[2] * b[2]))
RSub(a, b) == FlQ(Norm(a[1] * b[2] - b[1] * a[2], a[2] * b[2]))
RMul(a, b) == FlQ(Norm(a[1] * b[1], a[2] * b[2]))
\* Defined for b # 0 only; every use is guarded by the ZeroDivisionError test.
RDiv(a, b) == FlQ(Norm(a[1] * b[2], a[2] * b[1]))
RLt(a, b) == a[1] * b[2] < b[1] * a[2]
RLe(a, b) == a[1] * b[2] <= b[1] * a[2]
RIsZero(a) == a[1] = 0

\* Python 3 round(x): nearest integer, ties to the even one.
PyRound(a) == Nearest(a[1], a[2])

(***************************************************************************)
(* class Point                                                             *)
(***************************************************************************)
None == <<>>
Some(v) == <<v>>

Point(x, y) == [x |-> x, y |-> y]
IntPoint(x, y) == Point(R(x), R(y))

PointEq(a, b) == a.x = b.x /\ a.y = b.y
PointAdd(a, b) == Point(RAdd(a.x, b.x), RAdd(a.y, b.y))
PointSub(a, b) == Point(RSub(a.x, b.x), RSub(a.y, b.y))
PointMul(a, b) == Point(RMul(a.x, b.x), RMul(a.y, b.y))
PointDiv(a, b) == Point(RDiv(a.x, b.x), RDiv(a.y, b.y))
PointDivScalar(a, k) == Point(RDiv(a.x, R(k)), RDiv(a.y, R(k)))
PointRound(a) == IntPoint(PyRound(a.x), PyRound(a.y))
\* Mutation of Ratio: height over width.
RatioInverted(a) == RDiv(a.y, a.x)

Ratio(a) == RDiv(a.x, a.y)

(***************************************************************************)
(* class SelectedArea: selected_area = [corner 0, corner 1], each optional *)
(***************************************************************************)
SelectedArea(top_left) == <<top_left, None>>

Close(sel, bottom_right) == <<sel[1], Some(bottom_right)>>

IsSelected(sel) == sel[2] # None

\* __imul__: both corners times a Point; a None corner makes the
\* multiplication raise TypeError (see NewSize).
SelMul(sel, right) == <<Some(PointMul(sel[1][1], right)), Some(PointMul(sel[2][1], right))>>

\* __truediv__
SelDiv(sel, right) == Close(SelectedArea(Some(PointDiv(sel[1][1], right))), PointDiv(sel[2][1], right))

HasProperRect(sel) == RLt(sel[1][1].x, sel[2][1].x)

SortShort(v) == IF RLt(v[2], v[1]) THEN <<v[2], v[1]>> ELSE v

SortCoords(c1, c2) == <<SortShort(<<c1.x, c2.x>>), SortShort(<<c1.y, c2.y>>)>>

\* __convert_coords__: the pair [top_left, bottom_right] handed on.
ConvertCoords(sel) ==
    IF ~HasProperRect(sel)
    THEN LET increasing == SortCoords(sel[1][1], sel[2][1])
         IN  <<Point(increasing[1][1], increasing[2][1]),
               Point(increasing[1][2], increasing[2][2])>>
    ELSE <<sel[1][1], sel[2][1]>>

\* __get_dimensions__ of a pair of points
GetDimensions(rect) == PointSub(rect[2], rect[1])

\* get_width_height of a closed selection
GetWidthHeight(sel) == GetDimensions(<<sel[1][1], sel[2][1]>>)

\* to_wx_rect of a closed selection: wx.Rect(x, y, width, height), integers.
ToWxRect(sel) ==
    LET converted == ConvertCoords(sel)
        top_left == PointRound(converted[1])
        width_height == PointRound(GetDimensions(converted))
    IN  [x |-> top_left.x[1], y |-> top_left.y[1],
         w |-> width_height.x[1], h |-> width_height.y[1]]

(***************************************************************************)
(* ImageView.__scale_to_fit__ and ScalingReturnVal.factor                  *)
(***************************************************************************)
\* Mutation of ScaleToFit: the element is stretched over the whole container.
ScaleToFitStretched(container_size, element_size) ==
    [scale |-> container_size, old_width |-> element_size.x,
     new_width |-> container_size.x, old_height |-> element_size.y,
     new_height |-> container_size.y]

ScaleToFit(container_size, element_size) ==
    LET container_ratio == Ratio(container_size)
        element_ratio == Ratio(element_size)
        new == IF RLe(element_ratio, container_ratio)
               THEN Point(RMul(container_size.y, element_ratio), container_size.y)
               ELSE Point(container_size.x, RDiv(container_size.x, element_ratio))
    IN  [scale |-> new, old_width |-> element_size.x, new_width |-> new.x,
         old_height |-> element_size.y, new_height |-> new.y]

Factor(s) == Point(RDiv(s.new_width, s.old_width), RDiv(s.new_height, s.old_height))


(***************************************************************************)
(* Model parameters: the opened file's native size, the container sizes    *)
(* the toolkit may give the panel, the pointer positions it may report.    *)
(***************************************************************************)
NativeSize == <<4, 2>>

InitialSize == <<4, 4>>

WindowSizes == {<<4, 4>>, <<6, 4>>}

PointerPositions == {<<1, 1>>, <<3, 3>>, <<3, 0>>}

\* Cap on the number of pastes in one run.
MaxPastes == 1

\* Cap on the number of size events in one run (repeated resizes can grow the
\* selection's coordinates without bound).
MaxResizes == 1

(***************************************************************************)
(* class Image: [width, height] is the native raster size.  pixels names   *)
(* the raster content: for the base image the number of pastes made onto   *)
(* the opened file (every paste gives a new content), for a clone the      *)
(* source content and the rectangle copied from it.                        *)
(***************************************************************************)
NewImage(w, h, px) ==
    [width |-> w, height |-> h, scale |-> IntPoint(w, h),
     bitmap_cache |-> None, pixels |-> px]

UpdateScale(im, new_scale) == [im EXCEPT !.scale = new_scale]

\* wx.Image.Scale needs a positive target size.
CanScale(im) == PyRound(im.scale.x) > 0 /\ PyRound(im.scale.y) > 0

\* get_scaled + wx.Bitmap: the bitmap resampled from the current pixels at
\* round(scale); scale records the exact scale it was made for.
Render(im) ==
    [size |-> <<PyRound(im.scale.x), PyRound(im.scale.y)>>,
     scale |-> im.scale, pixels |-> im.pixels]

CacheHit(im) ==
    /\ im.bitmap_cache # None
    /\ PointEq(im.bitmap_cache[1].scale, im.scale)

\* Mutation of CacheEntry: the rendered bitmap is not kept.
CacheEntryDropped(im) == None

CacheEntry(im) == Some([scale |-> im.scale, bmp |-> Render(im)])

\* get_bitmap: the image afterwards, the bitmap returned (None when Scale
\* raised), whether the image was resampled, and the exception raised.
GetBitmap(im) ==
    IF CacheHit(im)
    THEN [img |-> im, bmp |-> Some(im.bitmap_cache[1].bmp), resampled |-> FALSE, err |-> "none"]
    ELSE IF CanScale(im)
    THEN [img |-> [im EXCEPT !.bitmap_cache = CacheEntry(im)],
          bmp |-> Some(Render(im)), resampled |-> TRUE, err |-> "none"]
    ELSE [img |-> im, bmp |-> None, resampled |-> FALSE, err |-> "wxAssertionError"]

\* wx.Image.GetSubImage: the rectangle has to belong entirely to the image.
RectInside(im, rect) ==
    /\ rect.w > 0 /\ rect.h > 0
    /\ rect.x >= 0 /\ rect.y >= 0
    /\ rect.x + rect.w <= im.width
    /\ rect.y + rect.h <= im.height

RectDegenerate(rect) ==
    /\ rect.w >= 0 /\ rect.h >= 0
    /\ rect.w = 0 \/ rect.h = 0

\* copy: the results GetSubImage can give.  A rectangle inside the raster
\* gives a sub-image; one outside, or of negative extent, makes wx raise
\* wxAssertionError, which copy turns into None; for an empty rectangle
\* with its corner inside the raster the result depends on the wx build.
CopyOutcomes(im, rect) ==
    IF RectInside(im, rect) THEN {"image"}
    ELSE IF /\ RectDegenerate(rect)
            /\ rect.x >= 0 /\ rect.y >= 0
            /\ rect.x + rect.w <= im.width /\ rect.y + rect.h <= im.height
    THEN {"image", "None"}
    ELSE {"None"}

Copy(im, rect, outcome) ==
    IF outcome = "None" THEN None
    ELSE Some(NewImage(rect.w, rect.h, [of |-> im.pixels, rect |-> rect]))

\* Mutation of Paste: the cached bitmap is kept.
PasteKeepingCache(im, src, x, y) == [im EXCEPT !.pixels = im.pixels + 1]

\* paste: drops the cached bitmap, then wx.Image.Paste changes the pixels.
Paste(im, src, x, y) ==
    [im EXCEPT !.bitmap_cache = None, !.pixels = im.pixels + 1]

GetScaleFactor(im) == Point(RDiv(im.scale.x, R(im.width)), RDiv(im.scale.y, R(im.height)))

(***************************************************************************)
(* class ImageView                                                         *)
(***************************************************************************)
VARIABLES
    size,            \* self.GetSize(): the panel's current size
    img,             \* self.img
    img_cp,          \* self.img_cp (optional)
    selected_area,   \* self.selected_area.selected_area
    rescale_lock,    \* self.rescale_lock
    mouse_pos_lock,  \* self.mouse_pos_lock
    mouse_pos,       \* self.mouse_pos (optional)
    resizes,         \* size events handled so far
    last,            \* the event handled last
    err,             \* the exception that handler raised, or "none"
    copy_result,     \* what self.img.copy returned, if the last handler called it
    pasted,          \* the arguments of self.img.paste, if the last handler called it
    drawn,           \* the bitmap self.img.get_bitmap returned, if the last handler called it
    was,             \* the controller's state before the last handler ran
    paint_run,       \* paint events (fits) since the last other event (counted up to 2)
    run_resamples,   \* resamplings of the base image in those paint events
    track            \* the native image points that were under the pointer when the
                     \* selection's first and second corner were last stored

obs == <<last, err, copy_result, pasted, drawn, was, paint_run, run_resamples>>

vars == <<size, img, img_cp, selected_area, rescale_lock, mouse_pos_lock,
          mouse_pos, resizes, obs, track>>

\* The interaction state: Holding with a clone buffer, else Idle with an
\* empty selection, Selecting with a first corner, and Unanchored with a
\* second corner only.
ControllerState ==
    IF img_cp # None THEN "Holding"
    ELSE IF selected_area[1] # None THEN "Selecting"
    ELSE IF selected_area[2] = None THEN "Idle"
    ELSE "Unanchored"

\* What a handler other than paint leaves in the paint observations.
NoPaint ==
    /\ drawn' = None
    /\ paint_run' = 0
    /\ run_resamples' = 0

\* What a handler that neither copies, pastes nor draws leaves in the
\* observations of the last handler.
Observe(event, exception) ==
    /\ last' = event
    /\ err' = exception
    /\ was' = ControllerState
    /\ copy_result' = "n/a"
    /\ pasted' = None
    /\ NoPaint

\* ImageView.__init__, the frame laid out and shown.
Init ==
    /\ size = InitialSize
    /\ img = NewImage(NativeSize[1], NativeSize[2], 0)
    /\ img_cp = None
    /\ selected_area = SelectedArea(None)
    /\ rescale_lock = TRUE
    /\ mouse_pos_lock = FALSE
    /\ mouse_pos = None
    /\ resizes = 0
    /\ last = "init"
    /\ err = "none"
    /\ copy_result = "n/a"
    /\ pasted = None
    /\ drawn = None
    /\ was = "Idle"
    /\ paint_run = 0
    /\ run_resamples = 0
    /\ track = <<None, None>>

GetCenter == IntPoint(size[1] \div 2, size[2] \div 2)

GetTopLeft == PointSub(GetCenter, PointDivScalar(img.scale, 2))

\* The native image point shown at window position p: p moved by the
\* image's corner, divided by get_scale_factor().
NativePoint(p) == PointDiv(PointSub(p, GetTopLeft), GetScaleFactor(img))

\* Paint events are delivered to a window that is on screen only.
IsShownOnScreen == TRUE

(***************************************************************************)
(* __new_size__: the base image is fitted to the panel; while rescaling is *)
(* not locked the closed selection and the clone follow by the same        *)
(* factor.  The scale is assigned before the selection is multiplied, so   *)
(* the TypeError of a selection without its first corner leaves the new    *)
(* scale in place.                                                         *)
(***************************************************************************)
NewSize(im, sel, cp, lock) ==
    IF ~IsShownOnScreen THEN [img |-> im, sel |-> sel, cp |-> cp, err |-> "none"]
    ELSE
    LET scaling == ScaleToFit(IntPoint(size[1], size[2]), im.scale)
        im1 == UpdateScale(im, scaling.scale)
    IN  IF lock THEN [img |-> im1, sel |-> sel, cp |-> cp, err |-> "none"]
        ELSE IF IsSelected(sel) /\ sel[1] = None
        THEN [img |-> im1, sel |-> sel, cp |-> cp, err |-> "TypeError"]
        ELSE [img |-> im1,
              sel |-> IF IsSelected(sel) THEN SelMul(sel, Factor(scaling)) ELSE sel,
              cp  |-> IF cp # None
                      THEN Some(UpdateScale(cp[1], PointMul(cp[1].scale, Factor(scaling))))
                      ELSE cp,
              err |-> "none"]

\* __draw_selection__ raises TypeError on a closed selection without its
\* first corner (None + offset); otherwise it only draws.
DrawSelectionRaises(sel) == IsSelected(sel) /\ sel[1] = None

\* __paint__ = __draw_image__ ; __draw_selection__ ; __draw_copy_prev__
Paint ==
    LET ns == NewSize(img, selected_area, img_cp, rescale_lock)
        gb == GetBitmap(ns.img)
        cb == GetBitmap(ns.cp[1])
        run == IF paint_run < 2 THEN paint_run + 1 ELSE 2
    IN  /\ last' = "paint"
        /\ was' = ControllerState
        /\ paint_run' = run
        /\ copy_result' = "n/a"
        /\ pasted' = None
        /\ UNCHANGED <<size, track, rescale_lock, mouse_pos_lock, mouse_pos, resizes>>
        /\ selected_area' = ns.sel
        /\ IF ns.err # "none"
           THEN /\ img' = ns.img
                /\ img_cp' = ns.cp
                /\ drawn' = None
                /\ run_resamples' = run_resamples
                /\ err' = ns.err
           ELSE /\ img' = gb.img
                /\ drawn' = gb.bmp
                /\ run_resamples' = IF gb.resampled THEN run_resamples + 1 ELSE run_resamples
                /\ IF gb.err # "none"
                   THEN img_cp' = ns.cp /\ err' = gb.err
                   ELSE IF DrawSelectionRaises(ns.sel)
                   THEN img_cp' = ns.cp /\ err' = "TypeError"
                   ELSE IF ns.cp # None
                   THEN img_cp' = Some(cb.img) /\ err' = cb.err
                   ELSE img_cp' = ns.cp /\ err' = "none"

(***************************************************************************)
(* __scale_to_full_size__: window-scale coordinates to native pixels.      *)
(* coord.x / coord.y and scale_x / ratio raise ZeroDivisionError when a    *)
(* component of coord is 0.                                                *)
(***************************************************************************)
ScaleToFullSizeRaises(coord) == RIsZero(coord.y) \/ RIsZero(coord.x)

ScaleToFullSize(coord) ==
    LET ratio == RDiv(coord.x, coord.y)
        scale_factor_x == RDiv(img.scale.x, R(img.width))
        scale_x == RDiv(coord.x, scale_factor_x)
        scale_y == RDiv(scale_x, ratio)
    IN  Point(scale_x, scale_y)

\* The window-space offset of the clone's top-left corner from the image's.
PasteOffset ==
    PointSub(PointSub(mouse_pos[1], GetTopLeft), PointDivScalar(img_cp[1].scale, 2))

\* Mutation of DownAnchor: the window position, not moved by the image's corner.
DownAnchorUnshifted == mouse_pos[1]

\* The first corner of the selection a pointer-down opens.
DownAnchor == PointSub(mouse_pos[1], GetTopLeft)

OnMouseDown ==
    /\ img_cp # None => img.pixels < MaxPastes
    /\ last' = "down"
    /\ was' = ControllerState
    /\ copy_result' = "n/a"
    /\ NoPaint
    /\ UNCHANGED <<size, rescale_lock, mouse_pos_lock, mouse_pos, resizes>>
    /\ IF mouse_pos = None
       THEN \* None - Point
            /\ err' = "TypeError"
            /\ pasted' = None
            /\ UNCHANGED <<img, img_cp, selected_area, track>>
       ELSE IF img_cp # None /\ ScaleToFullSizeRaises(PasteOffset)
       THEN /\ err' = "ZeroDivisionError"
            /\ pasted' = None
            /\ UNCHANGED <<img, img_cp, selected_area, track>>
       ELSE /\ err' = "none"
            /\ IF img_cp # None
               THEN LET converted == PointRound(ScaleToFullSize(PasteOffset))
                    IN  /\ img' = Paste(img, img_cp[1], converted.x[1], converted.y[1])
                        /\ pasted' = Some([src |-> img_cp[1].pixels,
                                           x |-> converted.x[1], y |-> converted.y[1]])
               ELSE /\ img' = img
                    /\ pasted' = None
            /\ img_cp' = None
            /\ selected_area' = SelectedArea(Some(DownAnchor))
            /\ track' = <<Some(NativePoint(mouse_pos[1])), None>>

\* Mutation of SelectionAfterFailedCopy: the selection is left as it was.
SelectionAfterFailedCopyKept == selected_area

\* The selection reset after a copy that gave None.
SelectionAfterFailedCopy == SelectedArea(None)

\* The native-space rectangle a pointer-up copies.
UpRect == ToWxRect(SelDiv(selected_area, GetScaleFactor(img)))

OnMouseUp ==
    /\ last' = "up"
    /\ was' = ControllerState
    /\ pasted' = None
    /\ NoPaint
    /\ UNCHANGED <<size, img, rescale_lock, mouse_pos_lock, mouse_pos, resizes>>
    /\ IF ~IsSelected(selected_area)
       THEN /\ err' = "none"
            /\ copy_result' = "n/a"
            /\ UNCHANGED <<img_cp, selected_area, track>>
       ELSE IF selected_area[1] = None
       THEN \* None / Point
            /\ err' = "TypeError"
            /\ copy_result' = "n/a"
            /\ UNCHANGED <<img_cp, selected_area, track>>
       ELSE \E outcome \in CopyOutcomes(img, UpRect) :
            LET factor == GetScaleFactor(img)
                copy == Copy(img, UpRect, outcome)
            IN  /\ err' = "none"
                /\ copy_result' = outcome
                /\ IF copy = None
                   THEN /\ img_cp' = None
                        /\ selected_area' = SelectionAfterFailedCopy
                        /\ track' = <<None, None>>
                   ELSE /\ img_cp' = Some(UpdateScale(copy[1], PointMul(copy[1].scale, factor)))
                        /\ UNCHANGED <<selected_area, track>>

\* Mutation of LockAfterMotion: a drag locks whether or not it is tracked.
LockAfterMotionUntracked(kind, tracking) ==
    IF kind = "drag" THEN TRUE ELSE rescale_lock

\* The rescale lock after a motion event of the given kind; tracking says
\* whether the pointer position is being followed.
LockAfterMotion(kind, tracking) ==
    IF tracking /\ kind = "drag" THEN TRUE ELSE rescale_lock

\* Mutation of TrackedPosition: the position is stored whatever the lock.
TrackedPositionAlways(lock, p) == Some(p)

\* self.mouse_pos after a motion event at p, lock being mouse_pos_lock as
\* the event left it.
TrackedPosition(lock, p) == IF lock THEN mouse_pos ELSE Some(p)

\* __on_mousemove__ for an event of kind leave, enter, move (no button
\* held) or drag (a button held), at window position pos.
OnMouseMove(kind, pos) ==
    LET lock == IF kind = "leave" THEN TRUE
                ELSE IF kind = "enter" THEN FALSE
                ELSE mouse_pos_lock
        p == IntPoint(pos[1], pos[2])
    IN  /\ Observe(kind, "none")
        /\ mouse_pos_lock' = lock
        /\ UNCHANGED <<size, img, img_cp, resizes>>
        /\ mouse_pos' = TrackedPosition(lock, p)
        /\ track' = IF ~lock /\ kind = "drag"
                     THEN <<track[1], Some(NativePoint(p))>>
                     ELSE track
        /\ rescale_lock' = LockAfterMotion(kind, ~lock)
        /\ selected_area' = IF ~lock /\ kind = "drag"
                            THEN Close(selected_area, PointSub(p, GetTopLeft))
                            ELSE selected_area

\* __on_resize__, with the size the toolkit has given the panel.
OnResize(new_size) ==
    /\ resizes < MaxResizes
    /\ resizes' = resizes + 1
    /\ Observe("resize", "none")
    /\ size' = new_size
    /\ rescale_lock' = FALSE
    /\ UNCHANGED <<track, img, img_cp, selected_area, mouse_pos_lock, mouse_pos>>

MouseMove == \E kind \in {"leave", "enter", "move", "drag"}, pos \in PointerPositions :
                 OnMouseMove(kind, pos)

Resize == \E new_size \in WindowSizes : OnResize(new_size)

Next == Paint \/ OnMouseDown \/ OnMouseUp \/ MouseMove \/ Resize

Spec == Init /\ [][Next]_vars

(***************************************************************************)
(* Properties of the controller (specification Spec).                      *)
(***************************************************************************)
Idle == img_cp = None /\ selected_area = <<None, None>>

Holding == img_cp # None

Anchor == selected_area[1]

FarCorner == selected_area[2]

\* The rectangle lies partly or wholly outside the raster.
RectOutside(im, rect) ==
    \/ rect.x < 0 \/ rect.y < 0
    \/ rect.w > 0 /\ rect.x + rect.w > im.width
    \/ rect.h > 0 /\ rect.y + rect.h > im.height

\* C1: a pointer-up on a closed selection with no clone buffer ends in
\* Holding (clone populated, selection still closed and unchanged) when the
\* copy of the selection's native rectangle gives an image, and in Idle
\* (selection empty, no clone) when it gives None; a rectangle inside the
\* raster gives an image, one partly or wholly outside gives None.
C1_PointerUpExtracts ==
    [][ (last' = "up" /\ img_cp = None /\ FarCorner # None /\ Anchor # None)
        => /\ copy_result' \in {"image", "None"}
           /\ RectInside(img, UpRect) => copy_result' = "image"
           /\ RectOutside(img, UpRect) => copy_result' = "None"
           /\ copy_result' = "image"
                => /\ img_cp' # None
                   /\ selected_area' = selected_area
           /\ copy_result' = "None"
                => /\ img_cp' = None
                   /\ selected_area' = <<None, None>> ]_vars

\* C1 witness: a pointer-up in Selecting whose copy gave None has left the
\* controller in Idle.
C1_Witness ==
    /\ last = "up" /\ was = "Selecting" /\ copy_result = "None"
    /\ Idle

\* The native position the clone is to be pasted at: the clone's top-left
\* corner in display space, divided per axis by the native-to-display factor.
StampPosition ==
    PointRound(PointDiv(PasteOffset, GetScaleFactor(img)))

\* C2: a pointer-down in Holding, whatever the pointer position, pastes the
\* clone at the native position of its top-left corner, discards the clone
\* and opens a fresh selection anchored at the pointer.  (Stated for a
\* clone of positive width and height.)
C2_PointerDownInHoldingTotal ==
    [][ (last' = "down" /\ img_cp # None /\ img_cp[1].width > 0 /\ img_cp[1].height > 0)
        => /\ err' = "none"
           /\ pasted' = Some([src |-> img_cp[1].pixels,
                              x |-> StampPosition.x[1], y |-> StampPosition.y[1]])
           /\ img_cp' = None
           /\ selected_area' = <<Some(PointSub(mouse_pos[1], GetTopLeft)), None>> ]_vars

\* The image's top-left corner in the window: window centre minus half the
\* displayed size.
TopLeftOffset ==
    Point(RSub(R(size[1] \div 2), RDiv(img.scale.x, R(2))),
          RSub(R(size[2] \div 2), RDiv(img.scale.y, R(2))))

\* C3 (as amended): the anchor a pointer-down stores is the last tracked
\* pointer position minus the image's top-left offset, in display space,
\* not divided by the display scale.
C3_AnchorIsOffsetPosition ==
    (last = "down" /\ err = "none")
        => /\ FarCorner = None
           /\ Anchor = Some(Point(RSub(mouse_pos[1].x, TopLeftOffset.x),
                                  RSub(mouse_pos[1].y, TopLeftOffset.y)))

\* C3 witness: a pointer-down has stored an anchor off the image's corner
\* while the image is displayed at 1.5 times its native size.
C3_Witness ==
    /\ last = "down" /\ err = "none"
    /\ img.scale = IntPoint(6, 3)
    /\ Anchor = Some(Point(R(3), <<5, 2>>))

\* C3 (as claimed): the stored anchor is (P - top_left_offset) divided by
\* the display scale, read either as the displayed size or as the
\* native-to-display factor.
C3_AnchorDividedByScale ==
    (last = "down" /\ err = "none")
        => \/ Anchor = Some(PointDiv(PointSub(mouse_pos[1], TopLeftOffset), img.scale))
           \/ Anchor = Some(PointDiv(PointSub(mouse_pos[1], TopLeftOffset),
                                     GetScaleFactor(img)))

PaintFactor == Factor(ScaleToFit(IntPoint(size[1], size[2]), img.scale))

Scaled(corner, f) == IF corner = None THEN None ELSE Some(PointMul(corner[1], f))

\* C5: a paint applies the container size; with rescale_lock clear the
\* corners of a closed selection and the clone's display scale are each
\* multiplied by the fit's factor, with rescale_lock set they are left
\* unchanged and only the base image's scale changes.
C5_ResizePropagation ==
    [][ last' = "paint"
        => /\ img'.scale = ScaleToFit(IntPoint(size[1], size[2]), img.scale).scale
           /\ IF rescale_lock
              THEN /\ selected_area' = selected_area
                   /\ img_cp # None => img_cp'[1].scale = img_cp[1].scale
              ELSE /\ FarCorner # None
                        => selected_area' = <<Scaled(Anchor, PaintFactor),
                                              Scaled(FarCorner, PaintFactor)>>
                   /\ FarCorner = None => selected_area' = selected_area
                   /\ img_cp # None
                        => img_cp'[1].scale = PointMul(img_cp[1].scale, PaintFactor) ]_vars

\* C6: a selection with a far corner has an anchor.
C6_FarCornerImpliesAnchor == FarCorner # None => Anchor # None

(***************************************************************************)
(* SelectedArea on its own (specification SpecSel): a selection is opened  *)
(* at one point and closed at another, any of the grid's points.           *)
(***************************************************************************)
MaxCoord == 3

SelPoints == {IntPoint(5 * i, 5 * j) : i, j \in 0..MaxCoord}

\* SelectedArea(top_left)
SelOpen ==
    \E p \in SelPoints :
        /\ selected_area' = SelectedArea(Some(p))
        /\ last' = "open"
        /\ UNCHANGED <<size, track, img, img_cp, rescale_lock, mouse_pos_lock, mouse_pos,
                       resizes, err, copy_result, pasted, drawn, was, paint_run,
                       run_resamples>>

\* close(bottom_right) on an opened selection
SelClose ==
    \E p \in SelPoints :
        /\ selected_area[1] # None
        /\ selected_area' = Close(selected_area, p)
        /\ last' = "close"
        /\ UNCHANGED <<size, track, img, img_cp, rescale_lock, mouse_pos_lock, mouse_pos,
                       resizes, err, copy_result, pasted, drawn, was, paint_run,
                       run_resamples>>

NextSel == SelOpen \/ SelClose

SpecSel == Init /\ [][NextSel]_vars

RMin(a, b) == IF RLe(a, b) THEN a ELSE b

RMax(a, b) == IF RLe(a, b) THEN b ELSE a

\* C7: the normalized rectangle of a closed selection is
\* top_left = (min x, min y), bottom_right = (max x, max y), for each of the
\* four drag directions.
C7_NormalizedIsMinMax ==
    (Anchor # None /\ FarCorner # None)
        => ConvertCoords(selected_area)
             = <<Point(RMin(Anchor[1].x, FarCorner[1].x), RMin(Anchor[1].y, FarCorner[1].y)),
                 Point(RMax(Anchor[1].x, FarCorner[1].x), RMax(Anchor[1].y, FarCorner[1].y))>>

\* C8: opening at A and closing at B gives the same normalized rectangle,
\* and the same wx.Rect, as opening at B and closing at A.
C8_NormalizedSwapInvariant ==
    (Anchor # None /\ FarCorner # None)
        => LET swapped == Close(SelectedArea(FarCorner), Anchor[1])
           IN  /\ ConvertCoords(swapped) = ConvertCoords(selected_area)
               /\ ToWxRect(swapped) = ToWxRect(selected_area)

(***************************************************************************)
(* Image on its own (specification SpecImage): update_scale, get_bitmap    *)
(* and paste in any order on the base image.                               *)
(***************************************************************************)
\* Scales: the native size, 1.5 times and twice it, two that round to one
\* of these sizes without being equal to it, one that rounds to an empty
\* bitmap.
ImageScales ==
    {IntPoint(4, 2), IntPoint(6, 3), IntPoint(8, 4),
     Point(<<17, 4>>, R(2)), Point(<<25, 4>>, R(3)), Point(<<1, 4>>, <<1, 8>>)}

ImgUpdateScale ==
    \E s \in ImageScales :
        /\ img' = UpdateScale(img, s)
        /\ last' = "update_scale"
        /\ err' = "none"
        /\ pasted' = None
        /\ NoPaint
        /\ UNCHANGED <<size, track, img_cp, selected_area, rescale_lock, mouse_pos_lock,
                       mouse_pos, resizes, copy_result, was>>

ImgGetBitmap ==
    LET gb == GetBitmap(img)
    IN  /\ img' = gb.img
        /\ drawn' = gb.bmp
        /\ run_resamples' = IF gb.resampled THEN 1 ELSE 0
        /\ paint_run' = 0
        /\ last' = "get_bitmap"
        /\ err' = gb.err
        /\ pasted' = None
        /\ UNCHANGED <<size, track, img_cp, selected_area, rescale_lock, mouse_pos_lock,
                       mouse_pos, resizes, copy_result, was>>

ImgPaste ==
    \E x \in 0..1, y \in 0..1 :
        LET src == NewImage(1, 1, [of |-> img.pixels, rect |-> [x |-> 0, y |-> 0, w |-> 1, h |-> 1]])
        IN  /\ img.pixels < MaxPastes
            /\ img' = Paste(img, src, x, y)
            /\ pasted' = Some([src |-> src.pixels, x |-> x, y |-> y])
            /\ last' = "paste"
            /\ err' = "none"
            /\ NoPaint
            /\ UNCHANGED <<size, track, img_cp, selected_area, rescale_lock, mouse_pos_lock,
                           mouse_pos, resizes, copy_result, was>>

NextImage == ImgUpdateScale \/ ImgGetBitmap \/ ImgPaste

SpecImage == Init /\ [][NextImage]_vars

\* C9: the bitmap get_bitmap returns was made at the current scale from the
\* current pixels (those left by the most recent paste), rounded size
\* included; no bitmap cached before a paste or under another scale is
\* returned.
C9_CacheCoherent ==
    drawn # None
        => /\ PointEq(drawn[1].scale, img.scale)
           /\ drawn[1].pixels = img.pixels
           /\ drawn[1].size = <<PyRound(img.scale.x), PyRound(img.scale.y)>>

\* C9 witness: after a paste, get_bitmap has answered from the cache, at a
\* scale other than the native size.
C9_Witness ==
    /\ last = "get_bitmap" /\ drawn # None /\ run_resamples = 0
    /\ img.pixels > 0
    /\ img.scale = IntPoint(6, 3)

\* C10: in a run of consecutive paint events the base image is resampled
\* at most once.
C10_OneResamplePerPaintRun == run_resamples <= 1

\* C10 witness: the second paint of a run was served from the cache the
\* first one filled, at the size a resize gave the panel.
C10_Witness ==
    /\ last = "paint" /\ paint_run = 2 /\ run_resamples = 1
    /\ drawn # None /\ resizes > 0 /\ img.scale = IntPoint(6, 3)

(***************************************************************************)
(* The fit on its own (specification SpecFit): an image of any of the      *)
(* native sizes is opened in a panel of any of the container sizes, with a *)
(* closed selection and a clone of it; __new_size__ is applied with        *)
(* rescaling unlocked, any number of times, the panel resized in between.  *)
(***************************************************************************)
FitContainers == {<<800, 400>>, <<4, 4>>, <<6, 4>>, <<3, 23>>, <<7, 5>>}

FitElements == {<<400, 400>>, <<4, 2>>, <<3, 23>>, <<1, 3>>, <<5, 7>>}

\* ImageView.__init__ and the selection of the image's first pixel.
FitOpen ==
    \E c \in FitContainers, e \in FitElements :
        LET rect == [x |-> 0, y |-> 0, w |-> 1, h |-> 1]
            im == NewImage(e[1], e[2], 0)
        IN  /\ last = "init"
            /\ size' = c
            /\ img' = im
            /\ selected_area' = Close(SelectedArea(Some(IntPoint(0, 0))), IntPoint(1, 1))
            /\ img_cp' = Copy(im, rect, "image")
            /\ rescale_lock' = FALSE
            /\ Observe("open", "none")
            /\ UNCHANGED <<track, mouse_pos_lock, mouse_pos, resizes>>

\* __new_size__
FitNewSize ==
    LET ns == NewSize(img, selected_area, img_cp, rescale_lock)
    IN  /\ last # "init"
        /\ img' = ns.img
        /\ selected_area' = ns.sel
        /\ img_cp' = ns.cp
        /\ last' = "fit"
        /\ err' = ns.err
        /\ was' = ControllerState
        /\ paint_run' = IF paint_run < 2 THEN paint_run + 1 ELSE 2
        /\ UNCHANGED <<size, track, rescale_lock, mouse_pos_lock, mouse_pos, resizes,
                       copy_result, pasted, drawn, run_resamples>>

\* The toolkit gives the panel another size.
FitResize ==
    \E c \in FitContainers :
        /\ last # "init"
        /\ resizes < MaxResizes
        /\ resizes' = resizes + 1
        /\ size' = c
        /\ Observe("resize", "none")
        /\ UNCHANGED <<track, img, img_cp, selected_area, rescale_lock, mouse_pos_lock, mouse_pos>>

NextFit == FitOpen \/ FitNewSize \/ FitResize

SpecFit == Init /\ [][NextFit]_vars

\* Exact arithmetic on the rationals the floats denote.
QMul(a, b) == Norm(a[1] * b[1], a[2] * b[2])

QLe(a, b) == a[1] * b[2] <= b[1] * a[2]

\* a <= b * (1 + 2^-(MantissaBits - 2)): a is at most b, up to the rounding
\* of two float operations.
WithinRounding(a, b) == QLe(a, QMul(b, <<2^(MantissaBits - 2) + 1, 2^(MantissaBits - 2)>>))

\* C11 (as amended): the fitted size equals the container on one axis
\* exactly; on the other axis it is at most the container's, and its
\* aspect ratio is the element's, each up to float rounding; container
\* (800,400) with element (400,400) gives (400,400) exactly.
C11_FitWithinRounding ==
    [][ last' = "fit"
        => LET c == IntPoint(size[1], size[2])
               e == img.scale
               f == img'.scale
           IN  /\ f.x = c.x \/ f.y = c.y
               /\ WithinRounding(f.x, c.x) /\ WithinRounding(f.y, c.y)
               /\ WithinRounding(QMul(f.x, e.y), QMul(f.y, e.x))
               /\ WithinRounding(QMul(f.y, e.x), QMul(f.x, e.y))
               /\ (size = <<800, 400>> /\ e = IntPoint(400, 400)) => f = IntPoint(400, 400) ]_vars

\* C11 witness: a 3 x 23 image fitted to a 3 x 23 panel is a rounding
\* step wider than the panel, and exactly as high.
C11_Witness ==
    /\ last = "fit" /\ size = <<3, 23>>
    /\ img.width = 3 /\ img.height = 23
    /\ img.scale.y = R(23)
    /\ ~QLe(img.scale.x, R(3))

\* C11 (as claimed): the fitted size has exactly the element's aspect
\* ratio and is at most the container on both axes, equal on one.
C11_FitExact ==
    [][ last' = "fit"
        => LET c == IntPoint(size[1], size[2])
               e == img.scale
               f == img'.scale
           IN  /\ QMul(f.x, e.y) = QMul(f.y, e.x)
               /\ QLe(f.x, c.x) /\ QLe(f.y, c.y)
               /\ f.x = c.x \/ f.y = c.y ]_vars


\* C12: a fit applied again with the same container size, its own result
\* as the element, gives the same fitted size: its factor is (1,1) and it
\* leaves the base display scale, the selection corners and the clone's
\* display scale unchanged.
C12_FitIdempotent ==
    [][ (last' = "fit" /\ paint_run' = 2)
        => /\ img'.scale = img.scale
           /\ PaintFactor = IntPoint(1, 1)
           /\ selected_area' = selected_area
           /\ img_cp'[1].scale = img_cp[1].scale ]_vars

\* C12 witness: a 1 x 3 image, fitted first to another panel, has been
\* fitted twice to a 7 x 5 panel; its displayed width is no whole number.
C12_Witness ==
    /\ last = "fit" /\ paint_run = 2 /\ resizes > 0
    /\ size = <<7, 5>> /\ img.width = 1 /\ img.height = 3
    /\ img.scale.x[2] > 1
    /\ selected_area[2] # Some(IntPoint(1, 1))

(***************************************************************************)
(* Further properties of the controller (specification Spec).              *)
(***************************************************************************)
\* An image without its cached bitmap: raster and display scale.
Surface(im) == IF im = None THEN None ELSE Some([im[1] EXCEPT !.bitmap_cache = None])

\* C13: a paint event leaves the base display scale, the selection
\* corners, the clone buffer and its display scale, the last pointer
\* position and both locks unchanged.
C13_PaintIsPure ==
    [][ last' = "paint"
        => /\ img'.scale = img.scale
           /\ selected_area' = selected_area
           /\ Surface(img_cp') = Surface(img_cp)
           /\ mouse_pos' = mouse_pos
           /\ rescale_lock' = rescale_lock
           /\ mouse_pos_lock' = mouse_pos_lock ]_vars

\* C14: a handler that raised has left the controller in Idle: no
\* selection and no clone buffer.  (Stated for handlers that started with
\* a selection respecting C6 and, in Holding, a clone of positive width
\* and height.)
C14_FailuresLeaveIdle ==
    (/\ err # "none"
     /\ was # "Unanchored"
     /\ img_cp # None => (img_cp[1].width > 0 /\ img_cp[1].height > 0))
        => Idle

RasterWidth == 3

RasterHeight == 2

\* The pictures the file may hold: every pixel its own colour, or stripes.
Rasters ==
    {[p \in (0..RasterWidth - 1) \X (0..RasterHeight - 1) |-> p[1] + RasterWidth * p[2]],
     [p \in (0..RasterWidth - 1) \X (0..RasterHeight - 1) |-> p[1] % 2]}

\* Mutation of GetSubImage: the sub-image is taken from the raster's origin.
GetSubImageAtOrigin(px, rect) ==
    [p \in (0..rect.w - 1) \X (0..rect.h - 1) |-> px[p]]

\* wx.Image.GetSubImage for a rectangle inside the raster.
GetSubImage(px, rect) ==
    [p \in (0..rect.w - 1) \X (0..rect.h - 1) |-> px[<<rect.x + p[1], rect.y + p[2]>>]]

\* wx.Image.Paste: the source's pixels replace the receiver's at the
\* offset, clipped to the receiver.
PasteOnto(px, src, x, y) ==
    [p \in DOMAIN px |->
        IF /\ p[1] - x \in 0..src.width - 1
           /\ p[2] - y \in 0..src.height - 1
        THEN src.pixels[<<p[1] - x, p[2] - y>>]
        ELSE px[p]]

\* Image.copy on the pixels.
CopyRaster(im, rect, outcome) ==
    IF outcome = "None" THEN None
    ELSE Some(NewImage(rect.w, rect.h, GetSubImage(im.pixels, rect)))

\* Image.paste on the pixels.
PasteRaster(im, src, x, y) ==
    [im EXCEPT !.bitmap_cache = None, !.pixels = PasteOnto(im.pixels, src, x, y)]

InitRaster ==
    /\ size = <<RasterWidth, RasterHeight>>
    /\ img \in {NewImage(RasterWidth, RasterHeight, px) : px \in Rasters}
    /\ img_cp = None
    /\ selected_area = SelectedArea(None)
    /\ rescale_lock = TRUE
    /\ mouse_pos_lock = FALSE
    /\ mouse_pos = None
    /\ resizes = 0
    /\ last = "init"
    /\ err = "none"
    /\ copy_result = "n/a"
    /\ pasted = None
    /\ drawn = None
    /\ was = "Idle"
    /\ paint_run = 0
    /\ run_resamples = 0
    /\ track = <<None, None>>

\* A selection from a to b, then copy(to_wx_rect()) as __on_mouse_up__ does.
RasterCopy ==
    \E ax \in 0..RasterWidth, ay \in 0..RasterHeight,
       bx \in 0..RasterWidth, by \in 0..RasterHeight :
        LET sel == Close(SelectedArea(Some(IntPoint(ax, ay))), IntPoint(bx, by))
            rect == ToWxRect(sel)
        IN  \E outcome \in CopyOutcomes(img, rect) :
                LET copy == CopyRaster(img, rect, outcome)
                IN  /\ img_cp' = copy
                    /\ selected_area' = IF copy = None THEN SelectedArea(None) ELSE sel
                    /\ last' = "copy"
                    /\ err' = "none"
                    /\ was' = ControllerState
                    /\ copy_result' = outcome
                    /\ pasted' = None
                    /\ NoPaint
                    /\ UNCHANGED <<size, track, img, rescale_lock, mouse_pos_lock, mouse_pos,
                                   resizes>>

\* paste(img_cp, x, y), on the picture as it was opened: a run has at most
\* one paste that alters it.
RasterPaste ==
    \E x \in -1..RasterWidth, y \in -1..RasterHeight :
        /\ img_cp # None
        /\ img.pixels \in Rasters
        /\ img' = PasteRaster(img, img_cp[1], x, y)
        /\ pasted' = Some([src |-> img_cp[1].pixels, x |-> x, y |-> y])
        /\ last' = "paste"
        /\ err' = "none"
        /\ was' = ControllerState
        /\ copy_result' = "n/a"
        /\ NoPaint
        /\ UNCHANGED <<size, track, img_cp, selected_area, rescale_lock, mouse_pos_lock,
                       mouse_pos, resizes>>

NextRaster == RasterCopy \/ RasterPaste

SpecRaster == InitRaster /\ [][NextRaster]_vars

\* C16: the copy of a rectangle inside the raster, pasted back at the
\* rectangle's own offset, leaves every pixel of the base image as it was.
C16_CopyPasteRoundTrip ==
    [][ (/\ last = "copy" /\ img_cp # None /\ last' = "paste"
         /\ RectInside(img, ToWxRect(selected_area))
         /\ pasted'[1].x = ToWxRect(selected_area).x
         /\ pasted'[1].y = ToWxRect(selected_area).y)
        => img'.pixels = img.pixels ]_vars

\* C16 witness: a 2 x 1 clone of two colours, copied from offset (1,1), has
\* been pasted back at (1,1).
C16_Witness ==
    /\ last = "paste" /\ was = "Holding" /\ img_cp # None
    /\ img_cp[1].width = 2 /\ img_cp[1].height = 1
    /\ selected_area = <<Some(IntPoint(1, 1)), Some(IntPoint(3, 2))>>
    /\ pasted = Some([src |-> img_cp[1].pixels, x |-> 1, y |-> 1])
    /\ img_cp[1].pixels[<<0, 0>>] # img_cp[1].pixels[<<1, 0>>]
    /\ img_cp[1].pixels = GetSubImage(img.pixels, [x |-> 1, y |-> 1, w |-> 2, h |-> 1])

(***************************************************************************)
(* Properties of pointer-up and of the selection's dimensions               *)
(* (specification Spec).                                                   *)
(***************************************************************************)
\* C17: a pointer-up on a closed selection whose native rectangle has zero
\* width or zero height attempts no extraction and creates no clone buffer.
C17_NoExtractionWhenDegenerate ==
    [][ (/\ last' = "up" /\ img_cp = None
         /\ Anchor # None /\ FarCorner # None
         /\ UpRect.w = 0 \/ UpRect.h = 0)
        => /\ copy_result' = "n/a"
           /\ img_cp' = None ]_vars

\* The extent of the rectangle spanned by two corners: max - min per axis.
NormalizedDimensions(a, b) ==
    PointSub(Point(RMax(a.x, b.x), RMax(a.y, b.y)), Point(RMin(a.x, b.x), RMin(a.y, b.y)))

\* C18 (specification SpecSel): the dimensions of a closed selection, those
\* the overlay is drawn with (get_width_height) and those the extraction
\* rectangle is built from (to_wx_rect), are bottom_right - top_left of the
\* normalized rectangle, so neither component is negative.
C18_DimensionsOfNormalized ==
    (Anchor # None /\ FarCorner # None)
        => LET d == NormalizedDimensions(Anchor[1], FarCorner[1])
           IN  /\ GetWidthHeight(selected_area) = d
               /\ GetDimensions(ConvertCoords(selected_area)) = d
               /\ ToWxRect(selected_area).w >= 0
               /\ ToWxRect(selected_area).h >= 0

\* C19: the controller is in exactly one of Idle (empty selection, no
\* clone), Selecting (anchor set, no clone) and Holding (clone); a clone
\* exists only with a selection that has both its anchor and its far corner.
C19_OneOfThreeStates ==
    /\ ControllerState \in {"Idle", "Selecting", "Holding"}
    /\ img_cp # None => (Anchor # None /\ FarCorner # None)

\* The pointer-down handler's conversion of the clone's corner to native
\* pixels, as it rounds it (None where the conversion raises).
StampConversion ==
    IF ScaleToFullSizeRaises(PasteOffset) THEN None
    ELSE Some(PointRound(ScaleToFullSize(PasteOffset)))

\* C20: the base image's native-to-display factor is the same on both axes
\* in every state, and on a pointer-down in Holding the handler's
\* conversion, which uses the x-axis factor for both axes, gives the native
\* position that the division by get_scale_factor() per axis gives.
\* (Stated for a clone of positive width and height.)
C20_UniformFactor ==
    /\ [](QMul(img.scale.x, R(img.height)) = QMul(img.scale.y, R(img.width)))
    /\ [][ (last' = "down" /\ img_cp # None /\ img_cp[1].width > 0 /\ img_cp[1].height > 0)
            => /\ StampConversion = Some(StampPosition)
               /\ pasted' # None
               /\ pasted'[1].x = StampPosition.x[1]
               /\ pasted'[1].y = StampPosition.y[1] ]_vars

(***************************************************************************)
(* The selection under resizes (specification Spec).                       *)
(***************************************************************************)
\* C21: when a pointer-up extracts a clone, the native rectangle it copies
\* is the one spanned by the native image points that were under the
\* pointer at the pointer-down and at the last drag, whatever resize and
\* paint events came in between.
C21_SelectionTracksImage ==
    [][ (/\ last' = "up" /\ copy_result' = "image"
         /\ track[1] # None /\ track[2] # None)
        => UpRect = ToWxRect(track) ]_vars

=============================================================================
